---- MODULE Spec2Model ----
(***************************************************************************)
(* Token-bucket rate limiter of goporo/url-shortener (package limiter,     *)
(* src/main.go:275-393; the copy at src/main.go:402-530 is identical up to *)
(* comments).                                                              *)
(*                                                                         *)
(* Time is discrete.  One unit of model time is one hour of wall-clock     *)
(* time, so that cleanupAfter (time.Hour) is 1.  time.Now() is the         *)
(* variable now, which only moves forward.  A duration is a number of      *)
(* units; Go's integer division and remainder on durations coincide with   *)
(* \div and % because elapsed times are never negative and interval >= 1.  *)
(* NewRateLimiter with interval = 0 makes Allow panic on the division at   *)
(* src/main.go:324; that configuration is outside the model.               *)
(***************************************************************************)
EXTENDS Integers, Sequences, FiniteSets, TLC

\* ---- bounds of the model ------------------------------------------------
MaxTime == 3
MaxRate == 2
MaxInterval == 2
MaxCap == 2
MaxMinutes == 3
MaxQuota == 2
MaxRows == 2
MaxHits == 2
MaxNanos == 1

\* the keys of the map, and the keys the request handlers present
Keys == {"a", "b"}
OneKey == {"a"}
\* the request-handling goroutines
Callers == {1, 2}
Ops == {"Allow", "RemainingTokens", "NextAvailable"}
\* the connections whose requests the HTTP server is handling
Conns == {1, 2}

\* ---- program constants --------------------------------------------------
\* cleanupAfter: time.Hour, src/main.go:297, in model time units.
cleanupAfter == 1

VARIABLES
    rate,       \* rl.rate: tokens per interval
    interval,   \* rl.interval: refill interval
    maxTokens,  \* rl.maxTokens: bucket capacity
    tokens,     \* rl.tokens: map key -> *bucket (exists = FALSE: no entry)
    locked,     \* rl.mu: TRUE while some goroutine holds the mutex
    now,        \* the clock read by time.Now()
    pc,         \* position of each calling goroutine
    op,         \* operation a calling goroutine is executing
    key,        \* its key argument
    spc,        \* position of the cleanup goroutine
    loc,        \* b, exists := rl.tokens[key] of a goroutine inside Allow
    ret,        \* value returned by the operation that returned last
    burst,      \* history: results of the Allow calls on a key at this instant
    fresh,      \* history: the key's bucket was created at this instant
    pre,        \* history: the map as it was when the clock last advanced
    admitTimes, \* history: the instants of the admitted Allow calls on a key
    lastCall,   \* history: the instant of the last Allow call on a key (-1: none)
    due,        \* history: the earliest instant NextAvailable has announced
                \* for a key since its last admitted Allow call (-1: none;
                \* -2: that call was made at or after the instant)
    requestsPerMinute, \* middleware rl.requestsPerMinute
    clients,    \* middleware rl.clients: client address -> admitted instants
    mu,         \* middleware rl.mu: TRUE while a request holds the mutex
    wall,       \* the clock read by time.Now() in the middleware, in minutes
    rpc,        \* position of each connection's goroutine in the handler chain
    clientIP,   \* c.ClientIP() of the request a connection is serving
    index,      \* c.index of that request's gin.Context
    status,     \* status code written to that request's response (0: none)
    body,       \* body written to that request's response
    forwarded,  \* history: times the handler after Limit was entered
    handled,    \* history: times the URL handler was entered
    gate,       \* history: the decision Limit took on that request
    requests,   \* Limit's local slice requests of a request in flight
    stamp,      \* Limit's local now := time.Now() of a request in flight
    sent,       \* history: the time.Now() of a client's forwarded requests
    urls,       \* the rows of table urls
    nextID,     \* the next value of the table's id sequence
    unixNano,   \* time.Now().UnixNano() as generateShortCode reads it
    hpc,        \* position of each connection's goroutine in its URL handler
    hop,        \* the handler it runs
    harg,       \* c.Param("shortCode") of its request
    hurl,       \* request.URL of its request
    hcode,      \* the local shortCode of createShortURL
    hrow,       \* the row a SELECT returned to it
    hres,       \* the status code it answered with (0: none)
    hits        \* history: redirects answered with 302 per id of a stored row

\* the state of the HTTP entry point and of its rate-limit middleware
\* the state of the URL handlers and of the table
dbVars == <<urls, nextID, unixNano, hpc, hop, harg, hurl, hcode, hrow, hres,
            hits>>

mwVars == <<requestsPerMinute, clients, mu, wall, rpc, clientIP, index,
            status, body, forwarded, handled, gate, requests, stamp, sent,
            dbVars>>

logVars == <<lastCall, due>>

vars == <<rate, interval, maxTokens, tokens, locked, now, pc, op, key, spc,
          loc, ret, burst, fresh, pre, admitTimes, mwVars, logVars>>

cfgVars == <<rate, interval, maxTokens>>

\* a map entry that does not exist
NoBucket == [exists |-> FALSE, tokens |-> 0, lastSeen |-> 0, lastRefil |-> 0]

\* &bucket{tokens: .., lastSeen: .., lastRefil: ..}
Bucket(t, seen, refil) ==
    [exists |-> TRUE, tokens |-> t, lastSeen |-> seen, lastRefil |-> refil]

NoRet == [kind |-> "none", b |-> FALSE, n |-> 0]
BoolRet(v) == [kind |-> "bool", b |-> v, n |-> 0]
IntRet(v) == [kind |-> "int", b |-> FALSE, n |-> v]
DurRet(v) == [kind |-> "dur", b |-> FALSE, n |-> v]

min(a, b) == IF a < b THEN a ELSE b

\* ---- NewRateLimiter -----------------------------------------------------
Init ==
    /\ rate \in 0..MaxRate
    /\ interval \in 1..MaxInterval
    /\ maxTokens \in 0..MaxCap
    /\ tokens = [k \in Keys |-> NoBucket]
    /\ locked = FALSE
    /\ now = 0
    /\ pc = [p \in Callers |-> "idle"]
    /\ op = [p \in Callers |-> "none"]
    /\ key = [p \in Callers |-> "none"]
    /\ spc = "idle"
    /\ loc = [p \in Callers |-> NoBucket]
    /\ ret = NoRet
    /\ burst = [k \in Keys |-> <<>>]
    /\ fresh = [k \in Keys |-> FALSE]
    /\ pre = [k \in Keys |-> NoBucket]
    /\ admitTimes = [k \in Keys |-> <<>>]
    /\ lastCall = [k \in Keys |-> -1]
    /\ due = [k \in Keys |-> -1]
    /\ requestsPerMinute = 0
    /\ clients = [k \in Keys |-> <<>>]
    /\ mu = FALSE
    /\ wall = 0
    /\ rpc = [r \in Conns |-> "idle"]
    /\ clientIP = [r \in Conns |-> "none"]
    /\ index = [r \in Conns |-> 0]
    /\ status = [r \in Conns |-> 0]
    /\ body = [r \in Conns |-> "none"]
    /\ forwarded = [r \in Conns |-> 0]
    /\ handled = [r \in Conns |-> 0]
    /\ gate = [r \in Conns |-> "none"]
    /\ requests = [r \in Conns |-> <<>>]
    /\ stamp = [r \in Conns |-> 0]
    /\ sent = [k \in Keys |-> <<>>]
    /\ urls = {}
    /\ nextID = 1
    /\ unixNano = 0
    /\ hpc = [w \in Conns |-> "idle"]
    /\ hop = [w \in Conns |-> "none"]
    /\ harg = [w \in Conns |-> <<>>]
    /\ hurl = [w \in Conns |-> "none"]
    /\ hcode = [w \in Conns |-> <<>>]
    /\ hrow = [w \in Conns |-> [id |-> 0, short_code |-> <<>>,
                                 original |-> "none", access_count |-> 0]]
    /\ hres = [w \in Conns |-> 0]
    /\ hits = [i \in 1..(MaxRows + 1) |-> 0]

\* ---- Allow --------------------------------------------------------------
\* tokensToAdd := int(elapsed/rl.interval) * rl.rate
TokensToAdd(b, t) == ((t - b.lastRefil) \div interval) * rate

\* mutant of Refill: lastRefil is stamped on every call
RefillAlwaysStamps(b, t) ==
    IF TokensToAdd(b, t) > 0
    THEN [b EXCEPT !.tokens = min(b.tokens + TokensToAdd(b, t), maxTokens),
                   !.lastRefil = t]
    ELSE [b EXCEPT !.lastRefil = t]

\* the refill step of Allow: lines 323-329
Refill(b, t) ==
    IF TokensToAdd(b, t) > 0
    THEN [b EXCEPT !.tokens = min(b.tokens + TokensToAdd(b, t), maxTokens),
                   !.lastRefil = t]
    ELSE b

\* mutant of Consume: the token is taken before the test, also on a denial
ConsumeAlways(b) == <<[b EXCEPT !.tokens = b.tokens - 1], b.tokens > 0>>

\* the consume step of Allow: lines 331-336, <<bucket, result>>
Consume(b) ==
    IF b.tokens > 0
    THEN <<[b EXCEPT !.tokens = b.tokens - 1], TRUE>>
    ELSE <<b, FALSE>>

\* mutant of NewBucket: the first request does not consume a token
NewBucketFull(t) == Bucket(maxTokens, t, t)

\* mutant of NewBucket: lastRefil is left at its zero value
NewBucketStale(t) == Bucket(maxTokens - 1, t, 0)

\* the bucket a first request creates: lines 313-317
NewBucket(t) == Bucket(maxTokens - 1, t, t)

\* mutant of AllowOn: lastSeen is left as it was
AllowOnNoTouch(b, t) ==
    IF ~b.exists
    THEN <<NewBucket(t), TRUE>>
    ELSE Consume(Refill(b, t))

\* Allow on the map entry b at time t: <<entry afterwards, result>>
AllowOn(b, t) ==
    IF ~b.exists
    THEN <<NewBucket(t), TRUE>>
    ELSE Consume(Refill([b EXCEPT !.lastSeen = t], t))

\* ---- RemainingTokens ----------------------------------------------------
\* mutant of RemainingOn: a key without a bucket reads as empty
RemainingOnZero(b, t) ==
    IF ~b.exists
    THEN 0
    ELSE min(b.tokens + TokensToAdd(b, t), maxTokens)

\* RemainingTokens on the map entry b at time t: lines 343-352
RemainingOn(b, t) ==
    IF ~b.exists
    THEN maxTokens
    ELSE min(b.tokens + TokensToAdd(b, t), maxTokens)

\* ---- NextAvailable ------------------------------------------------------
\* mutant of NextAvailableOn: the remainder is not taken
NextAvailableOnNoMod(b, t) ==
    IF ~b.exists \/ b.tokens > 0
    THEN 0
    ELSE interval - (t - b.lastRefil)

\* mutant of NextAvailableOn: an exhausted key is told to wait one unit
NextAvailableOnShort(b, t) ==
    IF ~b.exists \/ b.tokens > 0
    THEN 0
    ELSE 1

\* NextAvailable on the map entry b at time t: lines 359-368
NextAvailableOn(b, t) ==
    IF ~b.exists \/ b.tokens > 0
    THEN 0
    ELSE interval - ((t - b.lastRefil) % interval)

\* ---- cleanup ------------------------------------------------------------
\* mutant of Expired: the operands of Sub are exchanged
ExpiredSwapped(b, t) == b.lastSeen - t > cleanupAfter

\* mutant of Expired: a bucket idle for exactly the threshold is deleted
ExpiredAtThreshold(b, t) == t - b.lastSeen >= cleanupAfter

\* the condition of the delete at line 380
Expired(b, t) == t - b.lastSeen > cleanupAfter

\* one pass of the loop body, lines 379-383
Swept(m, t) ==
    [k \in Keys |-> IF m[k].exists /\ Expired(m[k], t) THEN NoBucket ELSE m[k]]

\* ---- the mutex ----------------------------------------------------------
\* mutant of CanLock: Lock does not wait for the mutex
CanLockAlways == TRUE

\* rl.mu.Lock() returns only when the mutex is free
CanLock == ~locked

\* number of Allow calls a key may still receive at this instant
BurstCap == maxTokens + 2

histVars == <<burst, fresh, pre>>

\* ---- actions ------------------------------------------------------------
\* a request-handling goroutine calls an operation and reaches rl.mu.Lock()
Call(p, o, k) ==
    /\ pc[p] = "idle"
    /\ o = "Allow" => Len(burst[k]) < BurstCap
    /\ pc' = [pc EXCEPT ![p] = "lock"]
    /\ op' = [op EXCEPT ![p] = o]
    /\ key' = [key EXCEPT ![p] = k]
    /\ UNCHANGED <<cfgVars, tokens, locked, now, spc, loc, ret, histVars, admitTimes, mwVars, logVars>>

\* rl.mu.Lock()
Lock(p) ==
    /\ pc[p] = "lock"
    /\ CanLock
    /\ locked' = TRUE
    /\ pc' = [pc EXCEPT ![p] = "cs"]
    /\ UNCHANGED <<cfgVars, tokens, now, op, key, spc, loc, ret, histVars, admitTimes, mwVars, logVars>>

\* the deferred rl.mu.Unlock() and the return to the caller
Return(p, v) ==
    /\ locked' = FALSE
    /\ ret' = v
    /\ pc' = [pc EXCEPT ![p] = "idle"]
    /\ op' = [op EXCEPT ![p] = "none"]
    /\ key' = [key EXCEPT ![p] = "none"]

\* mutant of AllowLoad: one bucket serves every key
AllowLoadShared(p) ==
    /\ pc[p] = "cs" /\ op[p] = "Allow"
    /\ loc' = [loc EXCEPT ![p] = tokens["a"]]
    /\ pc' = [pc EXCEPT ![p] = "store"]
    /\ UNCHANGED <<cfgVars, tokens, locked, now, op, key, spc, ret, histVars, admitTimes, mwVars, logVars>>

\* Allow, lines 309-310: now := time.Now(); b, exists := rl.tokens[key]
AllowLoad(p) ==
    /\ pc[p] = "cs" /\ op[p] = "Allow"
    /\ loc' = [loc EXCEPT ![p] = tokens[key[p]]]
    /\ pc' = [pc EXCEPT ![p] = "store"]
    /\ UNCHANGED <<cfgVars, tokens, locked, now, op, key, spc, ret, histVars, admitTimes, mwVars, logVars>>

\* Allow, lines 312-336, on what line 310 found, and the deferred Unlock
AllowStore(p) ==
    /\ pc[p] = "store"
    /\ LET k == key[p]
           r == AllowOn(loc[p], now)
       IN /\ tokens' = [tokens EXCEPT ![k] = r[1]]
          /\ Return(p, BoolRet(r[2]))
          /\ burst' = [burst EXCEPT ![k] = Append(burst[k], r[2])]
          /\ fresh' = [fresh EXCEPT ![k] = fresh[k] \/ ~loc[p].exists]
    /\ loc' = [loc EXCEPT ![p] = NoBucket]
    /\ UNCHANGED <<cfgVars, now, spc, pre, mwVars>>

\* Allow as the request handlers run it
Allow(p) ==
    /\ AllowStore(p)
    /\ UNCHANGED <<admitTimes, logVars>>

\* the body of RemainingTokens and the deferred Unlock
RemainingTokens(p) ==
    /\ pc[p] = "cs" /\ op[p] = "RemainingTokens"
    /\ Return(p, IntRet(RemainingOn(tokens[key[p]], now)))
    /\ UNCHANGED <<cfgVars, tokens, now, spc, loc, histVars, admitTimes, mwVars, logVars>>

\* the body of NextAvailable and the deferred Unlock
NextAvailableStep(p) ==
    /\ pc[p] = "cs" /\ op[p] = "NextAvailable"
    /\ Return(p, DurRet(NextAvailableOn(tokens[key[p]], now)))
    /\ UNCHANGED <<cfgVars, tokens, now, spc, loc, histVars, admitTimes, mwVars>>

\* NextAvailable as the request handlers run it
NextAvailable(p) ==
    /\ NextAvailableStep(p)
    /\ UNCHANGED logVars

\* the ticker of cleanup delivers a tick: the loop reaches rl.mu.Lock()
TickerFire ==
    /\ spc = "idle"
    /\ spc' = "lock"
    /\ UNCHANGED <<cfgVars, tokens, locked, now, pc, op, key, loc, ret, histVars, admitTimes, mwVars, logVars>>

\* mutant of SweepLock: cleanup enters without waiting for the mutex
SweepLockNoWait ==
    /\ spc = "lock"
    /\ locked' = TRUE
    /\ spc' = "cs"
    /\ UNCHANGED <<cfgVars, tokens, now, pc, op, key, loc, ret, histVars, admitTimes, mwVars, logVars>>

\* rl.mu.Lock() in cleanup
SweepLock ==
    /\ spc = "lock"
    /\ CanLock
    /\ locked' = TRUE
    /\ spc' = "cs"
    /\ UNCHANGED <<cfgVars, tokens, now, pc, op, key, loc, ret, histVars, admitTimes, mwVars, logVars>>

\* mutant of Sweep: the pass ends without rl.mu.Unlock()
SweepKeepsLock ==
    /\ spc = "cs"
    /\ tokens' = Swept(tokens, now)
    /\ spc' = "idle"
    /\ UNCHANGED <<cfgVars, locked, now, pc, op, key, loc, ret, histVars, admitTimes, mwVars, logVars>>

\* one sweep over the map and rl.mu.Unlock()
Sweep ==
    /\ spc = "cs"
    /\ tokens' = Swept(tokens, now)
    /\ locked' = FALSE
    /\ spc' = "idle"
    /\ UNCHANGED <<cfgVars, now, pc, op, key, loc, ret, histVars, admitTimes, mwVars, logVars>>

\* The clock advances by one unit.  The clock reading of line 309 is the
\* instant of the whole body of Allow, so the clock is held between the two
\* steps of that body.
Tick ==
    /\ now < MaxTime
    /\ \A p \in Callers : pc[p] # "store"
    /\ now' = now + 1
    /\ burst' = [k \in Keys |-> <<>>]
    /\ fresh' = [k \in Keys |-> FALSE]
    /\ pre' = tokens
    /\ UNCHANGED <<cfgVars, tokens, locked, pc, op, key, spc, loc, ret, admitTimes, mwVars, logVars>>

Next ==
    \/ \E p \in Callers, o \in Ops, k \in OneKey : Call(p, o, k)
    \/ \E p \in Callers : Lock(p)
    \/ \E p \in Callers : AllowLoad(p)
    \/ \E p \in Callers : Allow(p)
    \/ \E p \in Callers : RemainingTokens(p)
    \/ \E p \in Callers : NextAvailable(p)
    \/ TickerFire
    \/ SweepLock
    \/ Sweep
    \/ Tick

Spec == Init /\ [][Next]_vars

\* Scheduling.  The ticker of cleanup keeps delivering ticks and the Go
\* scheduler lets every runnable goroutine take its next step (weak
\* fairness).  sync.Mutex hands the mutex to a goroutine that has waited for
\* more than a millisecond (starvation mode), so a goroutine blocked in Lock
\* gets the mutex although other goroutines keep taking it (strong fairness).
\* Nothing obliges the request handlers to call, nor the clock to advance.
\* a step of the goroutine that holds the mutex, up to its Unlock
HolderStep ==
    \/ \E p \in Callers :
          AllowLoad(p) \/ Allow(p) \/ RemainingTokens(p) \/ NextAvailable(p)
    \/ Sweep

Fairness ==
    /\ WF_vars(TickerFire)
    /\ WF_vars(HolderStep)
    /\ SF_vars(SweepLock)
    /\ \A p \in Callers : SF_vars(Lock(p))

\* One request handler calling Allow, the sweep and the clock, under fair
\* scheduling: the life of an idle bucket.
NextIdle ==
    \/ \E k \in OneKey : Call(1, "Allow", k)
    \/ Lock(1)
    \/ AllowLoad(1)
    \/ Allow(1)
    \/ TickerFire
    \/ SweepLock
    \/ Sweep
    \/ Tick

SpecIdle == Init /\ [][NextIdle]_vars /\ Fairness

\* One request handler presenting either key, the sweep and the clock.
NextKeys ==
    \/ \E o \in Ops, k \in Keys : Call(1, o, k)
    \/ Lock(1)
    \/ AllowLoad(1)
    \/ Allow(1)
    \/ RemainingTokens(1)
    \/ NextAvailable(1)
    \/ TickerFire
    \/ SweepLock
    \/ Sweep
    \/ Tick

SpecKeys == Init /\ [][NextKeys]_vars

\* All request handlers and the sweep contending for the mutex at one
\* reading of the clock, under fair scheduling.
NextLock ==
    \/ \E p \in Callers, o \in Ops, k \in OneKey : Call(p, o, k)
    \/ \E p \in Callers : Lock(p)
    \/ \E p \in Callers : AllowLoad(p)
    \/ \E p \in Callers : Allow(p)
    \/ \E p \in Callers : RemainingTokens(p)
    \/ \E p \in Callers : NextAvailable(p)
    \/ TickerFire
    \/ SweepLock
    \/ Sweep

SpecLock == Init /\ [][NextLock]_vars /\ Fairness


\* ---- Allow with the admissions recorded -----------------------------------
\* Allow, with the instant of an admitted call appended to admitTimes
AllowLogged(p) ==
    /\ AllowStore(p)
    /\ admitTimes' =
          [admitTimes EXCEPT ![key[p]] =
              IF AllowOn(loc[p], now)[2] THEN Append(@, now) ELSE @]
    /\ UNCHANGED logVars

NextWin ==
    \/ \E p \in Callers, k \in OneKey : Call(p, "Allow", k)
    \/ \E p \in Callers : Lock(p)
    \/ \E p \in Callers : AllowLoad(p)
    \/ \E p \in Callers : AllowLogged(p)
    \/ TickerFire
    \/ SweepLock
    \/ Sweep
    \/ Tick

SpecWin == Init /\ [][NextWin]_vars

\* ---- the limiter with its calls and announcements recorded ----------------
\* Allow, with the instant of the call recorded; an admitted call settles
\* what NextAvailable had announced for the key
AllowTracked(p) ==
    /\ AllowStore(p)
    /\ lastCall' = [lastCall EXCEPT ![key[p]] = now]
    /\ due' = [due EXCEPT ![key[p]] =
                  IF ~ret'.b THEN @
                  ELSE IF @ >= 0 /\ now >= @ THEN -2 ELSE -1]
    /\ UNCHANGED admitTimes

\* NextAvailable, with the instant now + d it announces recorded when d > 0
NextAvailableTracked(p) ==
    /\ NextAvailableStep(p)
    /\ due' = [due EXCEPT ![key[p]] =
                  IF ret'.n > 0
                  THEN IF @ < 0 THEN now + ret'.n ELSE min(@, now + ret'.n)
                  ELSE @]
    /\ UNCHANGED lastCall

\* caller 1 issues every operation, caller 2 issues Allow
NextTrack ==
    \/ \E o \in Ops, k \in OneKey : Call(1, o, k)
    \/ \E k \in OneKey : Call(2, "Allow", k)
    \/ \E p \in Callers : Lock(p)
    \/ \E p \in Callers : AllowLoad(p)
    \/ \E p \in Callers : AllowTracked(p)
    \/ RemainingTokens(1)
    \/ NextAvailableTracked(1)
    \/ TickerFire
    \/ SweepLock
    \/ Sweep
    \/ Tick

SpecTrack == Init /\ [][NextTrack]_vars

\* ---- the HTTP entry point and its rate-limit middleware -------------------
\* src/unnamed/part_000:11-58 and main of src/unnamed/part_001:248-299.  Here
\* one unit of time is one minute.  gin serves every request in a goroutine
\* of its own and walks the request's handler chain with c.index: c.Next()
\* is  c.index++; for c.index < len(handlers) { handlers[c.index](c);
\* c.index++ }  and c.Abort() is  c.index = abortIndex.  The Logger and
\* Recovery handlers of gin.Default() only wrap c.Next() and are left out.

\* config.RateLimit.Enabled, src/config/config.go:13
RateLimitEnabled == TRUE

\* the handlers main registers, in order: r.Use(rateLimiter.Limit) if
\* enabled, r.Use(cors.Default()), then the handler of the matched route
Chain ==
    IF RateLimitEnabled THEN <<"Limit", "cors", "route">>
    ELSE <<"cors", "route">>

\* gin's abortIndex, the value c.Abort() stores in c.index
AbortIndex == 63

StatusTooManyRequests == 429
StatusOK == 200
\* the status cors answers a request it rejects with
StatusForbidden == 403

\* gin.H{"error": "Rate limit exceeded. Try again later."}
DenyBody == "{\"error\": \"Rate limit exceeded. Try again later.\"}"

gateFrame ==
    <<rate, interval, maxTokens, tokens, locked, now, pc, op, key, spc, loc,
      ret, burst, fresh, pre, admitTimes, lastCall, due, dbVars>>

\* NewRateLimitMiddleware(requestsPerMinute); main passes
\* cfg.RateLimit.RequestsPerMinute (60, src/config/config.go:14)
InitGate ==
    /\ rate = 0
    /\ interval = 1
    /\ maxTokens = 0
    /\ tokens = [k \in Keys |-> NoBucket]
    /\ locked = FALSE
    /\ now = 0
    /\ pc = [p \in Callers |-> "idle"]
    /\ op = [p \in Callers |-> "none"]
    /\ key = [p \in Callers |-> "none"]
    /\ spc = "idle"
    /\ loc = [p \in Callers |-> NoBucket]
    /\ ret = NoRet
    /\ burst = [k \in Keys |-> <<>>]
    /\ fresh = [k \in Keys |-> FALSE]
    /\ pre = [k \in Keys |-> NoBucket]
    /\ admitTimes = [k \in Keys |-> <<>>]
    /\ lastCall = [k \in Keys |-> -1]
    /\ due = [k \in Keys |-> -1]
    /\ requestsPerMinute \in 0..MaxQuota
    /\ clients = [k \in Keys |-> <<>>]
    /\ mu = FALSE
    /\ wall = 0
    /\ rpc = [r \in Conns |-> "idle"]
    /\ clientIP = [r \in Conns |-> "none"]
    /\ index = [r \in Conns |-> 0]
    /\ status = [r \in Conns |-> 0]
    /\ body = [r \in Conns |-> "none"]
    /\ forwarded = [r \in Conns |-> 0]
    /\ handled = [r \in Conns |-> 0]
    /\ gate = [r \in Conns |-> "none"]
    /\ requests = [r \in Conns |-> <<>>]
    /\ stamp = [r \in Conns |-> 0]
    /\ sent = [k \in Keys |-> <<>>]
    /\ urls = {}
    /\ nextID = 1
    /\ unixNano = 0
    /\ hpc = [w \in Conns |-> "idle"]
    /\ hop = [w \in Conns |-> "none"]
    /\ harg = [w \in Conns |-> <<>>]
    /\ hurl = [w \in Conns |-> "none"]
    /\ hcode = [w \in Conns |-> <<>>]
    /\ hrow = [w \in Conns |-> [id |-> 0, short_code |-> <<>>,
                                 original |-> "none", access_count |-> 0]]
    /\ hres = [w \in Conns |-> 0]
    /\ hits = [i \in 1..(MaxRows + 1) |-> 0]

\* the requests of the last minute: the loop of lines 36-41
Pruned(reqs, t) == SelectSeq(reqs, LAMBDA q : t - q <= 1)

\* a request arrives on a connection: gin resets the context and enters
\* c.Next(), which calls the first handler of the chain
ServeHTTP(r, ip) ==
    /\ rpc[r] = "idle"
    /\ rpc' = [rpc EXCEPT ![r] = IF Chain[1] = "Limit" THEN "lock" ELSE "outer"]
    /\ clientIP' = [clientIP EXCEPT ![r] = ip]
    /\ index' = [index EXCEPT ![r] = 0]
    /\ status' = [status EXCEPT ![r] = 0]
    /\ body' = [body EXCEPT ![r] = "none"]
    /\ forwarded' = [forwarded EXCEPT ![r] = 0]
    /\ handled' = [handled EXCEPT ![r] = 0]
    /\ gate' = [gate EXCEPT ![r] = "none"]
    /\ UNCHANGED <<gateFrame, requests, stamp, sent, requestsPerMinute, clients, mu, wall>>

\* mutant of LimitLock: the mutex is not waited for
LimitLockNoWait(r) ==
    /\ rpc[r] = "lock"
    /\ mu' = TRUE
    /\ rpc' = [rpc EXCEPT ![r] = "limit"]
    /\ UNCHANGED <<gateFrame, requests, stamp, sent, requestsPerMinute, clients,
                   wall, clientIP, index, status, body, forwarded, handled,
                   gate>>

\* rl.mu.Lock() at line 28
LimitLock(r) ==
    /\ rpc[r] = "lock"
    /\ ~mu
    /\ mu' = TRUE
    /\ rpc' = [rpc EXCEPT ![r] = "limit"]
    /\ UNCHANGED <<gateFrame, requests, stamp, sent, requestsPerMinute, clients, wall, clientIP,
                   index, status, body, forwarded, handled, gate>>

\* the first half of Limit, lines 31-44: read the address and the clock,
\* keep the requests of the last minute, store them
LimitPrune(r) ==
    /\ rpc[r] = "limit"
    /\ stamp' = [stamp EXCEPT ![r] = wall]
    /\ requests' = [requests EXCEPT ![r] = Pruned(clients[clientIP[r]], wall)]
    /\ clients' = [clients EXCEPT ![clientIP[r]] =
                      Pruned(clients[clientIP[r]], wall)]
    /\ rpc' = [rpc EXCEPT ![r] = "check"]
    /\ UNCHANGED <<gateFrame, requestsPerMinute, mu, wall, clientIP, index,
                   status, body, forwarded, handled, gate, sent>>

\* mutant of Limit: a denial writes the response but does not abort the chain
LimitNoAbort(r) ==
    /\ rpc[r] = "check"
    /\ IF Len(requests[r]) >= requestsPerMinute
       THEN /\ status' = [status EXCEPT ![r] = StatusTooManyRequests]
            /\ body' = [body EXCEPT ![r] = DenyBody]
            /\ gate' = [gate EXCEPT ![r] = "denied"]
            /\ rpc' = [rpc EXCEPT ![r] = "defer"]
            /\ UNCHANGED <<clients, index>>
       ELSE /\ clients' = [clients EXCEPT ![clientIP[r]] = Append(@, stamp[r])]
            /\ gate' = [gate EXCEPT ![r] = "admitted"]
            /\ index' = [index EXCEPT ![r] = @ + 1]
            /\ rpc' = [rpc EXCEPT ![r] = "inner"]
            /\ UNCHANGED <<status, body>>
    /\ requests' = [requests EXCEPT ![r] = <<>>]
    /\ stamp' = [stamp EXCEPT ![r] = 0]
    /\ UNCHANGED <<gateFrame, requestsPerMinute, mu, wall, clientIP,
                   forwarded, handled, sent>>

\* the second half of Limit, lines 46-57, up to and including the entry
\* into c.Next(): deny and abort, or record the request and go on.  The
\* locals are dead afterwards and are cleared.
LimitStep(r) ==
    /\ rpc[r] = "check"
    /\ IF Len(requests[r]) >= requestsPerMinute
       THEN /\ status' = [status EXCEPT ![r] = StatusTooManyRequests]
            /\ body' = [body EXCEPT ![r] = DenyBody]
            /\ index' = [index EXCEPT ![r] = AbortIndex]
            /\ gate' = [gate EXCEPT ![r] = "denied"]
            /\ rpc' = [rpc EXCEPT ![r] = "defer"]
            /\ UNCHANGED clients
       ELSE /\ clients' = [clients EXCEPT ![clientIP[r]] = Append(@, stamp[r])]
            /\ gate' = [gate EXCEPT ![r] = "admitted"]
            /\ index' = [index EXCEPT ![r] = @ + 1]
            /\ rpc' = [rpc EXCEPT ![r] = "inner"]
            /\ UNCHANGED <<status, body>>
    /\ requests' = [requests EXCEPT ![r] = <<>>]
    /\ stamp' = [stamp EXCEPT ![r] = 0]
    /\ UNCHANGED <<gateFrame, requestsPerMinute, mu, wall, clientIP,
                   forwarded, handled>>

Limit(r) ==
    /\ LimitStep(r)
    /\ UNCHANGED sent

\* one turn of the loop of c.Next(): cors lets the request pass
CorsPass(r) ==
    /\ rpc[r] \in {"inner", "outer"}
    /\ index[r] < Len(Chain)
    /\ Chain[index[r] + 1] = "cors"
    /\ forwarded' = [forwarded EXCEPT ![r] = @ + 1]
    /\ index' = [index EXCEPT ![r] = @ + 1]
    /\ UNCHANGED <<gateFrame, requests, stamp, sent, requestsPerMinute, clients, mu, wall, rpc,
                   clientIP, status, body, handled, gate>>

\* one turn of the loop of c.Next(): cors rejects the request and aborts
CorsAbort(r) ==
    /\ rpc[r] \in {"inner", "outer"}
    /\ index[r] < Len(Chain)
    /\ Chain[index[r] + 1] = "cors"
    /\ forwarded' = [forwarded EXCEPT ![r] = @ + 1]
    /\ status' = [status EXCEPT ![r] = StatusForbidden]
    /\ body' = [body EXCEPT ![r] = "none"]
    /\ index' = [index EXCEPT ![r] = AbortIndex + 1]
    /\ UNCHANGED <<gateFrame, requests, stamp, sent, requestsPerMinute, clients, mu, wall, rpc,
                   clientIP, handled, gate>>

\* one turn of the loop of c.Next(): the URL handler of the route runs
Route(r) ==
    /\ rpc[r] \in {"inner", "outer"}
    /\ index[r] < Len(Chain)
    /\ Chain[index[r] + 1] = "route"
    /\ handled' = [handled EXCEPT ![r] = @ + 1]
    /\ status' = [status EXCEPT ![r] = StatusOK]
    /\ body' = [body EXCEPT ![r] = "url"]
    /\ index' = [index EXCEPT ![r] = @ + 1]
    /\ UNCHANGED <<gateFrame, requests, stamp, sent, requestsPerMinute, clients, mu, wall, rpc,
                   clientIP, forwarded, gate>>

\* the loop of the c.Next() called at line 57 ends: control is back in Limit
NextReturns(r) ==
    /\ rpc[r] = "inner"
    /\ index[r] >= Len(Chain)
    /\ rpc' = [rpc EXCEPT ![r] = "defer"]
    /\ UNCHANGED <<gateFrame, requests, stamp, sent, requestsPerMinute, clients, mu, wall, clientIP,
                   index, status, body, forwarded, handled, gate>>

\* Limit returns: the deferred rl.mu.Unlock() of line 29 runs, and the loop
\* of the enclosing c.Next() steps past Limit
LimitReturns(r) ==
    /\ rpc[r] = "defer"
    /\ mu' = FALSE
    /\ index' = [index EXCEPT ![r] = @ + 1]
    /\ rpc' = [rpc EXCEPT ![r] = "outer"]
    /\ UNCHANGED <<gateFrame, requests, stamp, sent, requestsPerMinute, clients, wall, clientIP,
                   status, body, forwarded, handled, gate>>

\* the loop of the outermost c.Next() ends: the response is complete
ServeDone(r) ==
    /\ rpc[r] = "outer"
    /\ index[r] >= Len(Chain)
    /\ rpc' = [rpc EXCEPT ![r] = "idle"]
    /\ UNCHANGED <<gateFrame, requests, stamp, sent, requestsPerMinute, clients, mu, wall, clientIP,
                   index, status, body, forwarded, handled, gate>>

\* a minute passes
WallTick ==
    /\ wall < MaxMinutes
    /\ wall' = wall + 1
    /\ UNCHANGED <<gateFrame, requests, stamp, sent, requestsPerMinute, clients, mu, rpc, clientIP,
                   index, status, body, forwarded, handled, gate>>

NextGate ==
    \/ \E r \in Conns, ip \in Keys : ServeHTTP(r, ip)
    \/ \E r \in Conns : LimitLock(r)
    \/ \E r \in Conns : LimitPrune(r)
    \/ \E r \in Conns : Limit(r)
    \/ \E r \in Conns : CorsPass(r)
    \/ \E r \in Conns : CorsAbort(r)
    \/ \E r \in Conns : Route(r)
    \/ \E r \in Conns : NextReturns(r)
    \/ \E r \in Conns : LimitReturns(r)
    \/ \E r \in Conns : ServeDone(r)
    \/ WallTick

SpecGate == InitGate /\ [][NextGate]_vars

\* ---- the middleware with the forwarded requests recorded ------------------
\* Limit, with the time.Now() of a request it lets through appended to sent
LimitLogged(r) ==
    /\ LimitStep(r)
    /\ sent' = [sent EXCEPT ![clientIP[r]] =
                   IF gate'[r] = "admitted" THEN Append(@, stamp[r]) ELSE @]

NextGateWin ==
    \/ \E r \in Conns, ip \in OneKey : ServeHTTP(r, ip)
    \/ \E r \in Conns : LimitLock(r)
    \/ \E r \in Conns : LimitPrune(r)
    \/ \E r \in Conns : LimitLogged(r)
    \/ \E r \in Conns : CorsPass(r)
    \/ \E r \in Conns : Route(r)
    \/ \E r \in Conns : NextReturns(r)
    \/ \E r \in Conns : LimitReturns(r)
    \/ \E r \in Conns : ServeDone(r)
    \/ WallTick

SpecGateWin == InitGate /\ [][NextGateWin]_vars

\* ---- the URL handlers and the urls table -----------------------------------
\* Handlers of src/unnamed/part_001:34-246 on the table of src/db/db.go.  Each
\* connection's goroutine runs one handler at a time; a statement sent to the
\* database is one step, and the handlers of different connections interleave
\* between statements.  The clock of generateShortCode counts nanoseconds.
\* Failures of the database connection itself are outside the model.

\* const chars, line 30
chars ==
    <<"a", "b", "c", "d", "e", "f", "g", "h", "i", "j", "k", "l", "m",
      "n", "o", "p", "q", "r", "s", "t", "u", "v", "w", "x", "y", "z",
      "A", "B", "C", "D", "E", "F", "G", "H", "I", "J", "K", "L", "M",
      "N", "O", "P", "Q", "R", "S", "T", "U", "V", "W", "X", "Y", "Z",
      "0", "1", "2", "3", "4", "5", "6", "7", "8", "9">>

\* the modulus of generateShortCode, line 46
CodeModulus == 100000000

StatusCreated == 201
StatusFound == 302
StatusBadRequest == 400
StatusNotFound == 404
StatusInternalServerError == 500

HandlerOps == {"create", "redirect", "update", "delete", "stats", "list"}

\* the url of a request body; BadBody is a body ShouldBindJSON rejects
Urls == {"u", "v"}
BadBody == "bad"

\* no shortCode parameter, and a short code that no row carries
NoCode == <<>>
UnknownCode == <<"-">>

NoRow == [id |-> 0, short_code |-> NoCode, original |-> "none", access_count |-> 0]

\* the state outside the handlers and the table
dbFrame ==
    <<rate, interval, maxTokens, tokens, locked, now, pc, op, key, spc, loc,
      ret, burst, fresh, pre, admitTimes, lastCall, due,
      requestsPerMinute, clients, mu, wall, rpc, clientIP, index, status,
      body, forwarded, handled, gate, requests, stamp, sent>>

\* createSchema, src/db/db.go:64-79: an empty table
InitDB ==
    /\ rate = 0
    /\ interval = 1
    /\ maxTokens = 0
    /\ tokens = [k \in Keys |-> NoBucket]
    /\ locked = FALSE
    /\ now = 0
    /\ pc = [p \in Callers |-> "idle"]
    /\ op = [p \in Callers |-> "none"]
    /\ key = [p \in Callers |-> "none"]
    /\ spc = "idle"
    /\ loc = [p \in Callers |-> NoBucket]
    /\ ret = NoRet
    /\ burst = [k \in Keys |-> <<>>]
    /\ fresh = [k \in Keys |-> FALSE]
    /\ pre = [k \in Keys |-> NoBucket]
    /\ admitTimes = [k \in Keys |-> <<>>]
    /\ lastCall = [k \in Keys |-> -1]
    /\ due = [k \in Keys |-> -1]
    /\ requestsPerMinute = 0
    /\ clients = [k \in Keys |-> <<>>]
    /\ mu = FALSE
    /\ wall = 0
    /\ rpc = [r \in Conns |-> "idle"]
    /\ clientIP = [r \in Conns |-> "none"]
    /\ index = [r \in Conns |-> 0]
    /\ status = [r \in Conns |-> 0]
    /\ body = [r \in Conns |-> "none"]
    /\ forwarded = [r \in Conns |-> 0]
    /\ handled = [r \in Conns |-> 0]
    /\ gate = [r \in Conns |-> "none"]
    /\ requests = [r \in Conns |-> <<>>]
    /\ stamp = [r \in Conns |-> 0]
    /\ sent = [k \in Keys |-> <<>>]
    /\ urls = {}
    /\ nextID = 1
    /\ unixNano \in 0..MaxNanos
    /\ hpc = [w \in Conns |-> "idle"]
    /\ hop = [w \in Conns |-> "none"]
    /\ harg = [w \in Conns |-> NoCode]
    /\ hurl = [w \in Conns |-> "none"]
    /\ hcode = [w \in Conns |-> NoCode]
    /\ hrow = [w \in Conns |-> NoRow]
    /\ hres = [w \in Conns |-> 0]
    /\ hits = [i \in 1..(MaxRows + 1) |-> 0]

\* base62Encode, lines 34-42
RECURSIVE base62Encode(_)
base62Encode(num) ==
    IF num > 0
    THEN base62Encode(num \div 62) \o <<chars[(num % 62) + 1]>>
    ELSE <<>>

\* generateShortCode, lines 44-47, at the clock reading t
generateShortCode(t) == base62Encode(t % CodeModulus)

\* the rows WHERE short_code = c
RowsOf(c) == {r \in urls : r.short_code = c}

\* the short codes a client may present
ParamCodes == {r.short_code : r \in urls} \cup {UnknownCode}

\* the handlers of operation o that are running
Running(o) == {w \in Conns : hpc[w] # "idle" /\ hop[w] = o}

\* the shortCode parameters and the bodies a request for operation o may carry
ParamsOf(o) == IF o \in {"create", "list"} THEN {NoCode} ELSE ParamCodes
BodiesOf(o) == IF o \in {"create", "update"} THEN Urls \cup {BadBody} ELSE {"none"}

\* a request is routed to its handler
Handle(w, o, c, u) ==
    /\ hpc[w] = "idle"
    /\ o = "create" => nextID + Cardinality(Running("create")) <= MaxRows
    /\ o = "redirect" =>
          \A r \in urls :
              r.access_count + Cardinality(Running("redirect")) < MaxHits
    /\ hpc' = [hpc EXCEPT ![w] = "run"]
    /\ hop' = [hop EXCEPT ![w] = o]
    /\ harg' = [harg EXCEPT ![w] = c]
    /\ hurl' = [hurl EXCEPT ![w] = u]
    /\ hcode' = [hcode EXCEPT ![w] = NoCode]
    /\ hrow' = [hrow EXCEPT ![w] = NoRow]
    /\ hres' = [hres EXCEPT ![w] = 0]
    /\ UNCHANGED <<dbFrame, urls, nextID, unixNano, hits>>

\* the handler answers with status s and ends; its locals are dead
Answer(w, s) ==
    /\ hres' = [hres EXCEPT ![w] = s]
    /\ hpc' = [hpc EXCEPT ![w] = "idle"]
    /\ hop' = [hop EXCEPT ![w] = "none"]
    /\ harg' = [harg EXCEPT ![w] = NoCode]
    /\ hurl' = [hurl EXCEPT ![w] = "none"]
    /\ hcode' = [hcode EXCEPT ![w] = NoCode]
    /\ hrow' = [hrow EXCEPT ![w] = NoRow]

\* the handler goes on to position p with shortCode = c and url = r
Goto(w, p, c, r) ==
    /\ hpc' = [hpc EXCEPT ![w] = p]
    /\ hcode' = [hcode EXCEPT ![w] = c]
    /\ hrow' = [hrow EXCEPT ![w] = r]
    /\ UNCHANGED <<hres, hop, harg, hurl>>

\* createShortURL, lines 60-69: bind the body, generate the short code
CreateGenerate(w) ==
    /\ hpc[w] = "run" /\ hop[w] = "create"
    /\ IF hurl[w] = BadBody
       THEN Answer(w, StatusBadRequest)
       ELSE Goto(w, "insert", generateShortCode(unixNano), NoRow)
    /\ UNCHANGED <<dbFrame, urls, nextID, unixNano, hits>>

\* createShortURL, lines 81-89, and Database.CreateShortURL: the INSERT
\* fails on the UNIQUE constraint of short_code if a row carries the code
CreateInsert(w) ==
    /\ hpc[w] = "insert"
    /\ IF RowsOf(hcode[w]) # {}
       THEN /\ Answer(w, StatusInternalServerError)
            /\ UNCHANGED urls
       ELSE /\ urls' = urls \cup {[id |-> nextID, short_code |-> hcode[w],
                                   original |-> hurl[w], access_count |-> 0]}
            /\ Answer(w, StatusCreated)
    /\ nextID' = nextID + 1
    /\ UNCHANGED <<dbFrame, unixNano, hits>>

\* getOriginalURL, lines 100-112, and Database.GetURLByShortCode
RedirectSelect(w) ==
    /\ hpc[w] = "run" /\ hop[w] = "redirect"
    /\ IF RowsOf(harg[w]) = {}
       THEN Answer(w, StatusNotFound)
       ELSE \E r \in RowsOf(harg[w]) : Goto(w, "incr", NoCode, r)
    /\ UNCHANGED <<dbFrame, urls, nextID, unixNano, hits>>

\* the rows after UPDATE urls SET access_count = access_count + 1
\* WHERE short_code = c
Incremented(c) ==
    {IF r.short_code = c THEN [r EXCEPT !.access_count = @ + 1] ELSE r :
        r \in urls}

\* mutant of RedirectIncrement: the count read by the SELECT is written back
RedirectIncrementStale(w) ==
    /\ hpc[w] = "incr"
    /\ urls' = {IF r.short_code = harg[w]
                THEN [r EXCEPT !.access_count = hrow[w].access_count + 1]
                ELSE r : r \in urls}
    /\ hits' = [i \in DOMAIN hits |->
                   IF \E r \in RowsOf(harg[w]) : r.id = i
                   THEN hits[i] + 1 ELSE hits[i]]
    /\ Answer(w, StatusFound)
    /\ UNCHANGED <<dbFrame, nextID, unixNano>>

\* getOriginalURL, lines 114-120, and Database.IncrementClickCount: one
\* UPDATE adds one to the rows of the code, then the redirect is answered
RedirectIncrement(w) ==
    /\ hpc[w] = "incr"
    /\ urls' = Incremented(harg[w])
    /\ hits' = [i \in DOMAIN hits |->
                   IF \E r \in RowsOf(harg[w]) : r.id = i
                   THEN hits[i] + 1 ELSE hits[i]]
    /\ Answer(w, StatusFound)
    /\ UNCHANGED <<dbFrame, nextID, unixNano>>

\* updateShortURL, lines 135-152, and Database.UpdateURL
UpdateURL(w) ==
    /\ hpc[w] = "run" /\ hop[w] = "update"
    /\ IF hurl[w] = BadBody
       THEN /\ Answer(w, StatusBadRequest)
            /\ UNCHANGED urls
       ELSE /\ urls' = {IF r.short_code = harg[w]
                        THEN [r EXCEPT !.original = hurl[w]]
                        ELSE r : r \in urls}
            /\ Answer(w, IF RowsOf(harg[w]) = {} THEN StatusNotFound
                         ELSE StatusOK)
    /\ UNCHANGED <<dbFrame, nextID, unixNano, hits>>

\* deleteShortURL, lines 163-173, and Database.DeleteURL
DeleteURL(w) ==
    /\ hpc[w] = "run" /\ hop[w] = "delete"
    /\ urls' = urls \ RowsOf(harg[w])
    /\ hits' = [i \in DOMAIN hits |->
                   IF \E r \in RowsOf(harg[w]) : r.id = i THEN 0 ELSE hits[i]]
    /\ Answer(w, IF RowsOf(harg[w]) = {} THEN StatusNotFound ELSE StatusOK)
    /\ UNCHANGED <<dbFrame, nextID, unixNano>>

\* getURLStats, lines 184-205, and Database.GetURLByShortCode
GetURLStats(w) ==
    /\ hpc[w] = "run" /\ hop[w] = "stats"
    /\ Answer(w, IF RowsOf(harg[w]) = {} THEN StatusNotFound ELSE StatusOK)
    /\ UNCHANGED <<dbFrame, urls, nextID, unixNano, hits>>

\* getAllShortURLs, lines 224-246, and Database.GetAllURLs
GetAllShortURLs(w) ==
    /\ hpc[w] = "run" /\ hop[w] = "list"
    /\ Answer(w, StatusOK)
    /\ UNCHANGED <<dbFrame, urls, nextID, unixNano, hits>>

\* time passes: by a nanosecond, or by one period of the short codes; the
\* clock runs for one period and MaxNanos nanoseconds
NanoTick(d) ==
    /\ unixNano + d <= CodeModulus + MaxNanos
    /\ (unixNano + d) % CodeModulus <= MaxNanos
    /\ unixNano' = unixNano + d
    /\ UNCHANGED <<dbFrame, urls, nextID, hpc, hop, harg, hurl, hcode, hrow,
                   hres, hits>>

NextDB ==
    \/ \E w \in Conns, o \in HandlerOps :
          \E c \in ParamsOf(o), u \in BodiesOf(o) : Handle(w, o, c, u)
    \/ \E w \in Conns : CreateGenerate(w)
    \/ \E w \in Conns : CreateInsert(w)
    \/ \E w \in Conns : RedirectSelect(w)
    \/ \E w \in Conns : RedirectIncrement(w)
    \/ \E w \in Conns : UpdateURL(w)
    \/ \E w \in Conns : DeleteURL(w)
    \/ \E w \in Conns : GetURLStats(w)
    \/ \E w \in Conns : GetAllShortURLs(w)
    \/ \E d \in {1, CodeModulus} : NanoTick(d)

SpecDB == InitDB /\ [][NextDB]_vars

\* One connection sends every kind of request while the other sends
\* redirects; the clock advances by nanoseconds.
NextCount ==
    \/ \E o \in HandlerOps :
          \E c \in ParamsOf(o), u \in BodiesOf(o) : Handle(1, o, c, u)
    \/ \E c \in ParamsOf("redirect") : Handle(2, "redirect", c, "none")
    \/ \E w \in Conns : CreateGenerate(w)
    \/ \E w \in Conns : CreateInsert(w)
    \/ \E w \in Conns : RedirectSelect(w)
    \/ \E w \in Conns : RedirectIncrement(w)
    \/ \E w \in Conns : UpdateURL(w)
    \/ \E w \in Conns : DeleteURL(w)
    \/ \E w \in Conns : GetURLStats(w)
    \/ \E w \in Conns : GetAllShortURLs(w)
    \/ NanoTick(1)

SpecCount == InitDB /\ [][NextCount]_vars

\* ---- vocabulary of the properties ---------------------------------------
\* number of admitted calls in a sequence of Allow results
Trues(s) == Cardinality({i \in 1..Len(s) : s[i]})

\* some call of the sequence was denied
Denied(s) == \E i \in 1..Len(s) : ~s[i]

\* goroutine p completes the body of Allow in this step
AllowReturns(p) == pc[p] = "store" /\ pc'[p] = "idle"

\* goroutine p completes the body of the query o in this step
QueryReturns(p, o) == pc[p] = "cs" /\ op[p] = o /\ pc'[p] = "idle"

\* whole intervals elapsed since the last refill of bucket b at time t
WholeIntervals(b, t) == (t - b.lastRefil) \div interval

\* tokens Allow holds after its refill step and before it consumes
AfterRefill(b, t) == IF ~b.exists THEN maxTokens ELSE Refill(b, t).tokens

\* ---- C1 -----------------------------------------------------------------
\* C1: with maxTokens = N >= 1 and the clock standing still, the Allow calls
\* of the concurrent callers on one key return true at most N times in all,
\* in every interleaving of the callers and of the sweep.
C1_NoOverAdmission ==
    maxTokens >= 1 => \A k \in Keys : Trues(burst[k]) <= maxTokens

\* two callers inside Allow on the same key at once, the sweep waiting for
\* the mutex, the key already admitted N times and denied once
C1_Witness ==
    /\ maxTokens >= 2
    /\ Trues(burst["a"]) = maxTokens /\ Denied(burst["a"])
    /\ pc[1] = "store" /\ key[1] = "a"
    /\ pc[2] = "lock" /\ op[2] = "Allow" /\ key[2] = "a"
    /\ spc = "lock"

\* ---- C2 -----------------------------------------------------------------
\* C2: on a key that had no bucket, with maxTokens = N >= 1 and the clock
\* standing still, the i-th consecutive Allow returns true exactly when
\* i <= N: the first N are admitted and the (N+1)-th is denied.
C2_BurstCapacity ==
    maxTokens >= 1 =>
        \A k \in Keys : fresh[k] =>
            \A i \in 1..Len(burst[k]) : burst[k][i] = (i <= maxTokens)

\* N = 2 admitted calls and the denied third one on a bucket created now
C2_Witness ==
    /\ maxTokens = 2 /\ fresh["a"]
    /\ burst["a"] = <<TRUE, TRUE, FALSE>>

\* ---- C3 -----------------------------------------------------------------
\* C3: every bucket of the map holds 0 <= tokens <= maxTokens, for every
\* configuration with rate >= 0 and maxTokens >= 0.
C3_TokensInRange ==
    \A k \in Keys :
        tokens[k].exists => 0 <= tokens[k].tokens /\ tokens[k].tokens <= maxTokens

\* ---- C4 -----------------------------------------------------------------
\* C4: an Allow on an existing bucket for which w >= 1 whole intervals have
\* elapsed advances lastRefil by exactly w * interval (stated for rate >= 1,
\* where the code's test tokensToAdd > 0 is the test w >= 1).
C4_RefillKeepsRemainder ==
    [][\A p \in Callers :
        (/\ AllowReturns(p)
         /\ rate >= 1
         /\ tokens[key[p]].exists
         /\ WholeIntervals(tokens[key[p]], now) >= 1)
        => tokens'[key[p]].lastRefil =
              tokens[key[p]].lastRefil
                + WholeIntervals(tokens[key[p]], now) * interval]_vars

\* ---- C5 -----------------------------------------------------------------
\* C5: a bucket left with tokens = 0 by an Allow exactly one interval ago
\* admits, with the clock standing still, exactly min(rate, maxTokens) Allow
\* calls and denies the next (stated for maxTokens >= 1).
C5_RefillAfterExhaustion ==
    maxTokens >= 1 =>
        \A k \in Keys :
            (/\ pre[k].exists
             /\ pre[k].tokens = 0
             /\ pre[k].lastSeen = now - interval)
            => \A i \in 1..Len(burst[k]) :
                  burst[k][i] = (i <= min(rate, maxTokens))

\* ---- C6 -----------------------------------------------------------------
\* C6: for every key and every n >= 1, the Allow calls admitted within a
\* window of length at most n * interval number at most
\* maxTokens + n * rate (stated for rate >= 1 and maxTokens >= 1).
C6_WindowBound ==
    (rate >= 1 /\ maxTokens >= 1) =>
        \A k \in Keys :
            \A i \in 1..Len(admitTimes[k]) :
                \A j \in i..Len(admitTimes[k]) :
                    \A n \in 1..(MaxTime + 1) :
                        admitTimes[k][j] - admitTimes[k][i] <= n * interval
                        => j - i + 1 <= maxTokens + n * rate

\* ---- C7 -----------------------------------------------------------------
\* C7: Allow on a key without a bucket returns true and leaves the bucket
\* {tokens: maxTokens - 1, lastSeen: now, lastRefil: now}, whether the key
\* was never seen or was evicted.
C7_FirstRequest ==
    [][\A p \in Callers :
        (AllowReturns(p) /\ ~tokens[key[p]].exists)
        => /\ ret' = BoolRet(TRUE)
           /\ tokens'[key[p]] = Bucket(maxTokens - 1, now, now)]_vars

\* a key whose bucket was evicted at this instant and created again
C7_Witness ==
    /\ pre["a"].exists /\ pre["a"].tokens < maxTokens - 1
    /\ fresh["a"]
    /\ burst["a"] = <<TRUE>>
    /\ tokens["a"] = Bucket(maxTokens - 1, now, now)
    /\ ret = BoolRet(TRUE)

\* ---- C8 -----------------------------------------------------------------
\* C8: once an Allow on a key was denied, every further Allow on it made
\* with the clock standing still is denied too and leaves the bucket's
\* tokens and lastRefil as they were.
C8_IdempotentDenial ==
    [][\A p \in Callers :
        (AllowReturns(p) /\ Denied(burst[key[p]]))
        => /\ ret' = BoolRet(FALSE)
           /\ tokens'[key[p]].tokens = tokens[key[p]].tokens
           /\ tokens'[key[p]].lastRefil = tokens[key[p]].lastRefil]_vars

\* two denials in a row on a bucket that refills
C8_Witness ==
    /\ rate >= 1 /\ maxTokens >= 1 /\ now >= interval
    /\ Len(burst["a"]) >= 3
    /\ burst["a"][1]
    /\ ~burst["a"][Len(burst["a"]) - 1]
    /\ ~burst["a"][Len(burst["a"])]
    /\ ret = BoolRet(FALSE)

\* ---- C9 -----------------------------------------------------------------
\* C9: on a key without a bucket RemainingTokens returns maxTokens and
\* NextAvailable returns zero, and neither creates a bucket.
C9_UnseenKey ==
    [][\A p \in Callers :
        /\ (QueryReturns(p, "RemainingTokens") /\ ~tokens[key[p]].exists)
           => (ret' = IntRet(maxTokens) /\ tokens' = tokens)
        /\ (QueryReturns(p, "NextAvailable") /\ ~tokens[key[p]].exists)
           => (ret' = DurRet(0) /\ tokens' = tokens)]_vars

\* a query has returned maxTokens for a key whose bucket was evicted
C9_Witness ==
    /\ maxTokens >= 1
    /\ pre["a"].exists /\ ~tokens["a"].exists
    /\ ret = IntRet(maxTokens)

\* ---- C10 ----------------------------------------------------------------
\* C10: RemainingTokens changes nothing of the limiter, returns the tokens
\* an Allow at the same instant holds after its refill step, and so is
\* positive exactly when that Allow returns true.
C10_RemainingMatchesAllow ==
    [][\A p \in Callers :
        QueryReturns(p, "RemainingTokens")
        => /\ tokens' = tokens
           /\ ret' = IntRet(AfterRefill(tokens[key[p]], now))
           /\ AllowOn(tokens[key[p]], now)[2] <=> (ret'.n > 0)]_vars

\* ---- C11 ----------------------------------------------------------------
\* C11: NextAvailable returns zero at every instant at which an Allow on the
\* same key would be admitted, also when the stored count is 0 and a whole
\* interval has elapsed since lastRefil.
C11_ZeroWhenAdmissible ==
    [][\A p \in Callers :
        (QueryReturns(p, "NextAvailable") /\ AllowOn(tokens[key[p]], now)[2])
        => ret' = DurRet(0)]_vars

\* ---- C12 ----------------------------------------------------------------
\* C12: on a bucket that holds no token NextAvailable returns
\* interval - ((now - lastRefil) mod interval), a value in (0, interval],
\* and changes nothing of the limiter.
C12_WaitUntilBoundary ==
    [][\A p \in Callers :
        (/\ QueryReturns(p, "NextAvailable")
         /\ tokens[key[p]].exists
         /\ tokens[key[p]].tokens <= 0)
        => /\ ret' = DurRet(interval
                              - ((now - tokens[key[p]].lastRefil) % interval))
           /\ 0 < ret'.n /\ ret'.n <= interval
           /\ tokens' = tokens]_vars

\* NextAvailable has answered 1 on an empty bucket last refilled one and a
\* half intervals ago
C12_Witness ==
    /\ interval = 2
    /\ tokens["a"].exists /\ tokens["a"].tokens = 0
    /\ now - tokens["a"].lastRefil = 3
    /\ ret = DurRet(1)

\* ---- C14 ----------------------------------------------------------------
\* C14: a bucket that a sweep removes would, had it been kept, read as full
\* at that instant, so that eviction cannot be observed (stated for
\* rate >= 1 and maxTokens >= 1).
C14_EvictionUnobservable ==
    [][(spc = "cs" /\ spc' = "idle" /\ rate >= 1 /\ maxTokens >= 1)
        => \A k \in Keys :
              (tokens[k].exists /\ ~tokens'[k].exists)
              => RemainingOn(tokens[k], now) = maxTokens]_vars

\* ---- C15 ----------------------------------------------------------------
\* goroutines inside a critical section of rl.mu
InCS == {p \in Callers : pc[p] \in {"cs", "store"}}
NumInCS == Cardinality(InCS) + (IF spc = "cs" THEN 1 ELSE 0)

\* C15: at most one of the operations and the sweep is inside its critical
\* section at any time, the mutex is held exactly then, and every Allow
\* takes effect as the sequential Allow applied to the map at its return.
C15_MutualExclusion ==
    /\ [](NumInCS <= 1 /\ (locked <=> NumInCS = 1))
    /\ [][\A p \in Callers :
            AllowReturns(p)
            => /\ tokens'[key[p]] = AllowOn(tokens[key[p]], now)[1]
               /\ ret' = BoolRet(AllowOn(tokens[key[p]], now)[2])]_vars

\* one caller between the two steps of Allow while the other caller and the
\* sweep wait for the mutex
C15_Witness ==
    /\ locked /\ NumInCS = 1
    /\ pc[1] = "store" /\ tokens["a"].exists
    /\ pc[2] = "lock" /\ op[2] = "RemainingTokens"
    /\ spc = "lock"

\* ---- C19 ----------------------------------------------------------------
\* C19: over a bucket's life lastRefil never decreases and changes only in
\* an Allow on that key for which at least one whole interval has elapsed;
\* every other step leaves it as it was.
C19_LastRefilMonotone ==
    [][\A k \in Keys :
        (tokens[k].exists /\ tokens'[k].exists)
        => /\ tokens'[k].lastRefil >= tokens[k].lastRefil
           /\ tokens'[k].lastRefil # tokens[k].lastRefil
              => \E p \in Callers :
                    /\ AllowReturns(p) /\ key[p] = k
                    /\ WholeIntervals(tokens[k], now) >= 1]_vars

\* a bucket refilled at this instant, one and a half intervals after the
\* refill before
C19_Witness ==
    /\ interval = 2 /\ rate >= 1
    /\ pre["a"].exists /\ tokens["a"].exists /\ ~fresh["a"]
    /\ now - pre["a"].lastRefil = 3
    /\ tokens["a"].lastRefil = now

\* ---- C13 ----------------------------------------------------------------
\* bucket k has not been seen for longer than the eviction threshold
IdleTooLong(k) ==
    tokens[k].exists /\ now - tokens[k].lastSeen > cleanupAfter

\* C13: while the sweep keeps firing, a bucket idle for longer than the
\* threshold is eventually removed unless a request touches it first, and
\* the next Allow on a removed key returns true and leaves
\* tokens = maxTokens - 1.
C13_IdleEviction ==
    /\ \A k \in Keys : IdleTooLong(k) ~> ~IdleTooLong(k)
    /\ [][\A p \in Callers :
            (AllowReturns(p) /\ ~tokens[key[p]].exists)
            => /\ ret' = BoolRet(TRUE)
               /\ tokens'[key[p]].tokens = maxTokens - 1]_vars

\* the sweep has removed a bucket that was idle for longer than the
\* threshold and nothing has created it again
C13_Witness ==
    /\ pre["a"].exists /\ now - pre["a"].lastSeen > cleanupAfter
    /\ ~tokens["a"].exists
    /\ burst["a"] = <<>>
    /\ spc = "idle"

\* ---- C16 ----------------------------------------------------------------
\* C16: under fair scheduling every call of Allow, RemainingTokens and
\* NextAvailable returns and every sweep ends, whatever the other callers
\* and the sweep do: nobody waits for the mutex forever.
C16_EveryCallReturns ==
    /\ \A p \in Callers : (pc[p] # "idle") ~> (pc[p] = "idle")
    /\ (spc # "idle") ~> (spc = "idle")

\* both callers wait for the mutex while the sweep holds it
C16_Witness ==
    /\ spc = "cs" /\ locked
    /\ pc[1] = "lock" /\ op[1] = "Allow"
    /\ pc[2] = "lock" /\ op[2] = "NextAvailable"

\* ---- C18 ----------------------------------------------------------------
\* what operation o returns on the map entry b at time t
ResultOn(o, b, t) ==
    CASE o = "Allow" -> BoolRet(AllowOn(b, t)[2])
      [] o = "RemainingTokens" -> IntRet(RemainingOn(b, t))
      [] o = "NextAvailable" -> DurRet(NextAvailableOn(b, t))

\* C18: an operation on key k leaves the bucket of every other key as it
\* was, and its result is determined by the bucket of k and the clock alone,
\* whatever was done to the other keys.
C18_KeyIndependence ==
    [][\A p \in Callers :
        (pc[p] \in {"cs", "store"} /\ pc'[p] = "idle")
        => /\ \A k \in Keys \ {key[p]} : tokens'[k] = tokens[k]
           /\ ret' = ResultOn(op[p], tokens[key[p]], now)]_vars

\* both keys hold a bucket, in different states, and the last request, on
\* "b", was admitted while "a" is exhausted
C18_Witness ==
    /\ maxTokens = 2
    /\ tokens["a"].exists /\ tokens["a"].tokens = 0
    /\ tokens["b"].exists /\ tokens["b"].tokens = 1
    /\ tokens["a"].lastSeen < tokens["b"].lastSeen
    /\ ret = BoolRet(TRUE)

\* ---- C20 ----------------------------------------------------------------
\* C20: a sweep removes exactly the buckets with
\* now - lastSeen > cleanupAfter and leaves every other bucket, with its
\* tokens, lastRefil and lastSeen, as it was.
C20_SweepExact ==
    [][(spc = "cs" /\ spc' = "idle")
        => \A k \in Keys :
              tokens'[k] =
                 IF tokens[k].exists /\ now - tokens[k].lastSeen > cleanupAfter
                 THEN NoBucket
                 ELSE tokens[k]]_vars

\* one sweep has removed the bucket of "a" and kept the bucket of "b", seen
\* exactly cleanupAfter ago
C20_Witness ==
    /\ pre["a"].exists /\ ~tokens["a"].exists
    /\ tokens["b"].exists /\ tokens["b"] = pre["b"]
    /\ now - tokens["b"].lastSeen = cleanupAfter
    /\ burst["a"] = <<>> /\ burst["b"] = <<>>
    /\ spc = "idle"

\* ---- C17 ----------------------------------------------------------------
\* the request of connection r has been answered in full
Answered(r) == rpc[r] = "idle" /\ gate[r] # "none"

\* C17: every request passes the rate-limit gate before a URL handler runs;
\* a request the gate denies is answered with status 429 and the body
\* {"error": "Rate limit exceeded. Try again later."} and is never forwarded
\* to a downstream handler; a request the gate admits is forwarded exactly
\* once.
C17_GateBeforeHandlers ==
    \A r \in Conns :
        /\ (forwarded[r] > 0 \/ handled[r] > 0) => gate[r] = "admitted"
        /\ gate[r] = "denied" =>
              /\ status[r] = StatusTooManyRequests
              /\ body[r] = DenyBody
              /\ forwarded[r] = 0
              /\ handled[r] = 0
        /\ forwarded[r] <= 1
        /\ (Answered(r) /\ gate[r] = "admitted") => forwarded[r] = 1
        /\ (rpc[r] = "idle" /\ status[r] # 0) => gate[r] # "none"

\* both outcomes are answered at one time: a denied request next to an
\* admitted one whose URL handler ran
C17_Witness ==
    \E r, q \in Conns :
        /\ Answered(r) /\ gate[r] = "denied" /\ status[r] = StatusTooManyRequests
        /\ Answered(q) /\ gate[q] = "admitted" /\ handled[q] = 1
        /\ requestsPerMinute > 0

\* ---- C21 ----------------------------------------------------------------
\* the requests of client k let through with a time.Now() in [t, t + 1]
SentIn(k, t) == {i \in 1..Len(sent[k]) : t <= sent[k][i] /\ sent[k][i] <= t + 1}

\* C21: for each client address at most requestsPerMinute requests are let
\* through within any window of one minute, under any interleaving of the
\* connections; a denial leaves the client's timestamp list as it was.
C21_SlidingWindow ==
    /\ [](\A k \in Keys, t \in 0..MaxMinutes :
             Cardinality(SentIn(k, t)) <= requestsPerMinute)
    /\ [][\A r \in Conns :
            (rpc[r] = "check" /\ gate'[r] = "denied") => clients' = clients]_vars

\* the quota was used up twice, a minute apart, and a request was denied
C21_Witness ==
    /\ requestsPerMinute = 2
    /\ Len(sent["a"]) = 4
    /\ \E r \in Conns : Answered(r) /\ gate[r] = "denied"

\* ---- C22 ----------------------------------------------------------------
\* C22: every Allow on an existing bucket, admitted or denied, sets lastSeen
\* to now, while RemainingTokens and NextAvailable write nothing; hence a
\* sweep removes a bucket exactly when the last Allow call on its key is
\* older than cleanupAfter, however often the key was queried since.
C22_OnlyAllowTouches ==
    /\ [][\A p \in Callers :
            (AllowReturns(p) /\ loc[p].exists)
            => tokens'[key[p]].lastSeen = now]_vars
    /\ [][\A p \in Callers :
            (QueryReturns(p, "RemainingTokens") \/ QueryReturns(p, "NextAvailable"))
            => tokens' = tokens]_vars
    /\ [][(spc = "cs" /\ spc' = "idle")
            => \A k \in Keys :
                  tokens[k].exists
                  => /\ lastCall[k] >= 0
                     /\ tokens'[k].exists <=> now - lastCall[k] <= cleanupAfter]_vars

\* a key whose last Allow is two units old has been queried and then swept
\* away at this instant
C22_Witness ==
    /\ lastCall["a"] >= 0 /\ now - lastCall["a"] = 2
    /\ pre["a"].exists /\ ~tokens["a"].exists
    /\ ret.kind = "int"
    /\ burst["a"] = <<>>
    /\ spc = "idle"

\* ---- C23 ----------------------------------------------------------------
\* C23: with rate >= 1 and maxTokens >= 1, once NextAvailable has returned
\* d > 0 at time t, the first Allow on the key at or after t + d is admitted,
\* whatever denied Allow calls, queries and sweeps came in between.
C23_WaitSuffices ==
    [][\A p \in Callers :
        (/\ AllowReturns(p)
         /\ rate >= 1 /\ maxTokens >= 1
         /\ due[key[p]] >= 0 /\ now >= due[key[p]])
        => ret' = BoolRet(TRUE)]_vars

\* with a two-unit interval an announced wait has run out and the one
\* Allow made at this instant, after the wait, was admitted on a refill
C23_Witness ==
    /\ rate >= 1 /\ maxTokens >= 1 /\ interval = 2
    /\ due["a"] = -2
    /\ ret = BoolRet(TRUE)
    /\ Len(burst["a"]) = 1
    /\ tokens["a"].exists /\ tokens["a"].lastRefil = now

\* ---- C24 ----------------------------------------------------------------
\* every row stored before the step is stored after it, its access count
\* raised by one if it carries the short code c and unchanged otherwise
CountsRaisedFor(c) ==
    \A r \in urls :
        \E q \in urls' :
            /\ q.id = r.id
            /\ q.access_count =
                  r.access_count + (IF r.short_code = c THEN 1 ELSE 0)

\* handler w ends in this step
HandlerEnds(w) == hpc[w] # "idle" /\ hpc'[w] = "idle"

\* C24: a redirect answered with 302 raises the access count of the code's
\* row by exactly one and no increment is lost when redirects run together;
\* stats, list and update leave every access count as it was, and a redirect
\* of an unknown code changes no row.
C24_AccessCount ==
    /\ [](\A r \in urls : r.access_count = hits[r.id])
    /\ [][\A w \in Conns :
            (HandlerEnds(w) /\ hres'[w] = StatusFound)
            => CountsRaisedFor(harg[w])]_vars
    /\ [][\A w \in Conns :
            (HandlerEnds(w) /\ hop[w] \in {"stats", "list", "update"})
            => CountsRaisedFor(UnknownCode)]_vars
    /\ [][\A w \in Conns :
            (HandlerEnds(w) /\ hop[w] = "redirect"
                /\ hres'[w] = StatusNotFound)
            => urls' = urls]_vars

\* two redirects of one code overlap: connection 1 has read the row with
\* count 0, connection 2 has since raised it to 1 and answered 302
C24_Witness ==
    /\ hpc[1] = "incr" /\ hrow[1].access_count = 0
    /\ \E r \in RowsOf(harg[1]) : r.access_count = 1 /\ r.id = hrow[1].id
    /\ hres[2] = StatusFound

\* ---- C25 ----------------------------------------------------------------
\* C25: no create request fails on the uniqueness of short_code, and no two
\* stored rows share a short code.
C25_FreshShortCode ==
    /\ \A w \in Conns : hres[w] # StatusInternalServerError
    /\ \A r, q \in urls : r.short_code = q.short_code => r = q

====
